---- MODULE Spec2Model ----
(***************************************************************************)
(* A model of jtl (src/jtl.py): JSON-to-JSON ETL.  A mapping evaluates a   *)
(* jq expression on a source document and writes the results at a concrete *)
(* path of a destination document, in upsert or replace mode.              *)
(*                                                                         *)
(* Python objects are modelled on a heap: a list or a dict is a heap cell  *)
(* reached through a reference, so that in-place mutation and sharing are  *)
(* what they are in Python.  None, strings, numbers and booleans are       *)
(* immutable and are held inline.  Python's dict compares without regard   *)
(* to key order, and so does the model (a dict is a function on its keys). *)
(***************************************************************************)
EXTENDS Integers, Sequences, FiniteSets, TLC

VARIABLES
    heap,       \* the Python heap: a sequence of list and dict cells
    src_obj,    \* run_etl's src_obj
    dst_obj,    \* run_etl's dst_obj (the object the caller holds too)
    dst_seed,   \* the destination document as it was given to run_etl
    ctx,        \* run_etl's ctx
    mappings,   \* run_etl's mappings
    delimiter,  \* run_etl's delimiter
    mi,         \* run_etl: how many mappings the for loop has finished
    pc,         \* "run_etl", "apply_mapping", "done" or "raised"
    err,        \* the exception that ended the run, "" when none
    mode,       \* apply_mapping's mode
    eff_delim,  \* apply_mapping's eff_delim
    results,    \* apply_mapping's results
    segs,       \* apply_mapping's segs
    ri,         \* apply_mapping: how many results the for loop has written
    why,        \* which raise statement raised err, "" when none
    prelude,    \* run_etl's prelude
    meta_ctx,   \* run_meta's meta_ctx
    steps,      \* run_meta's steps
    default_delimiter,  \* run_meta's default_delimiter
    idx,        \* run_meta: the number of the step the for loop has reached
    prev_obj,   \* run_meta's prev_obj
    final_obj,  \* run_meta's final_obj
    returned,   \* what run_meta has returned, NoReturn until it returns
    raw,        \* load_etl_file: the content of the file
    loaded,     \* load_etl_file: what it returned or raised
    dst_path,   \* parse_jq_path: its argument
    parsed      \* parse_jq_path: what it returned or raised

vars == <<heap, src_obj, dst_obj, dst_seed, ctx, mappings, delimiter, mi, pc,
          err, mode, eff_delim, results, segs, ri, why, prelude, meta_ctx, steps,
          default_delimiter, idx, prev_obj, final_obj, returned, raw, loaded,
          dst_path, parsed>>

\* The variables of run_meta, of a call of load_etl_file and of a call of
\* parse_jq_path, which a run of run_etl leaves alone.
chain == <<meta_ctx, steps, default_delimiter, idx, prev_obj, final_obj, returned>>

calls == <<raw, loaded, dst_path, parsed>>

-----------------------------------------------------------------------------
(* JSON values.  In a document tree the elements of an array and the       *)
(* fields of an object are values; on the heap they are inline scalars or  *)
(* references.                                                             *)

JNull == [t |-> "null"]

JStr(s) == [t |-> "str", s |-> s]

JNum(n) == [t |-> "num", n |-> n]

JBool(b) == [t |-> "bool", b |-> b]

JArr(e) == [t |-> "arr", e |-> e]

JObj(m) == [t |-> "obj", m |-> m]

Ref(a) == [t |-> "ref", a |-> a]

EmptyMap == [k \in {} |-> JNull]

One(k, v) == [x \in {k} |-> v]

Put(m, k, v) == [x \in (DOMAIN m) \cup {k} |-> IF x = k THEN v ELSE m[x]]

RECURSIVE SetToSeq(_)
SetToSeq(S) ==
    IF S = {} THEN <<>>
    ELSE LET x == CHOOSE y \in S : TRUE IN <<x>> \o SetToSeq(S \ {x})

IsStr(v) == v.t = "str"

IsList(h, v) == v.t = "ref" /\ h[v.a].t = "arr"

IsDict(h, v) == v.t = "ref" /\ h[v.a].t = "obj"

\* The document tree a heap value stands for.
RECURSIVE Val(_, _)
Val(h, v) ==
    IF v.t # "ref" THEN v
    ELSE IF h[v.a].t = "arr"
         THEN JArr([i \in 1..Len(h[v.a].e) |-> Val(h, h[v.a].e[i])])
         ELSE JObj([k \in DOMAIN h[v.a].m |-> Val(h, h[v.a].m[k])])

\* The cells reachable from a heap value.
RECURSIVE Reach(_, _)
Reach(h, v) ==
    IF v.t # "ref" THEN {}
    ELSE IF h[v.a].t = "arr"
         THEN {v.a} \cup UNION {Reach(h, h[v.a].e[i]) : i \in 1..Len(h[v.a].e)}
         ELSE {v.a} \cup UNION {Reach(h, h[v.a].m[k]) : k \in DOMAIN h[v.a].m}

\* A new cell on the heap, with the reference to it.
New(h, cell) == [h |-> Append(h, cell), v |-> Ref(Len(h) + 1)]

NewArr(r) == New(r.h, JArr(r.v))

NewObj(r) == New(r.h, JObj(r.v))

AddItem(acc, r) == [h |-> r.h, v |-> Append(acc.v, r.v)]

AddField(acc, k, r) == [h |-> r.h, v |-> Put(acc.v, k, r.v)]

\* A document tree built as fresh objects (json.load, jq's output).
RECURSIVE Alloc(_, _), AllocItems(_, _), AllocFields(_, _, _)
Alloc(h, tree) ==
    IF tree.t = "arr" THEN NewArr(AllocItems([h |-> h, v |-> <<>>], tree.e))
    ELSE IF tree.t = "obj" THEN
        NewObj(AllocFields([h |-> h, v |-> EmptyMap], tree.m, SetToSeq(DOMAIN tree.m)))
    ELSE [h |-> h, v |-> tree]
AllocItems(acc, items) ==
    IF items = <<>> THEN acc
    ELSE AllocItems(AddItem(acc, Alloc(acc.h, Head(items))), Tail(items))
AllocFields(acc, m, ks) ==
    IF ks = <<>> THEN acc
    ELSE AllocFields(AddField(acc, Head(ks), Alloc(acc.h, m[Head(ks)])), m, Tail(ks))

CopiedItem(acc, r) == [h |-> r.h, memo |-> r.memo, v |-> Append(acc.v, r.v)]

CopiedField(acc, k, r) == [h |-> r.h, memo |-> r.memo, v |-> Put(acc.v, k, r.v)]

FillArr(a, r) == [h |-> [r.h EXCEPT ![a] = JArr(r.v)], memo |-> r.memo, v |-> Ref(a)]

FillObj(a, r) == [h |-> [r.h EXCEPT ![a] = JObj(r.v)], memo |-> r.memo, v |-> Ref(a)]

\* copy.deepcopy: the copy is built of fresh cells; memo keeps an object that
\* is reached twice shared in the copy, as Python's memo dictionary does.
RECURSIVE Copy(_, _, _), CopyItems(_, _), CopyFields(_, _, _)
Copy(h, memo, v) ==
    IF v.t # "ref" THEN [h |-> h, memo |-> memo, v |-> v]
    ELSE IF v.a \in DOMAIN memo THEN [h |-> h, memo |-> memo, v |-> Ref(memo[v.a])]
    ELSE IF h[v.a].t = "arr" THEN
        FillArr(Len(h) + 1,
                CopyItems([h |-> Append(h, JArr(<<>>)),
                           memo |-> Put(memo, v.a, Len(h) + 1), v |-> <<>>],
                          h[v.a].e))
    ELSE
        FillObj(Len(h) + 1,
                CopyFields([h |-> Append(h, JObj(EmptyMap)),
                            memo |-> Put(memo, v.a, Len(h) + 1), v |-> EmptyMap],
                           h[v.a].m, SetToSeq(DOMAIN h[v.a].m)))
CopyItems(acc, items) ==
    IF items = <<>> THEN acc
    ELSE CopyItems(CopiedItem(acc, Copy(acc.h, acc.memo, Head(items))), Tail(items))
CopyFields(acc, m, ks) ==
    IF ks = <<>> THEN acc
    ELSE CopyFields(CopiedField(acc, Head(ks), Copy(acc.h, acc.memo, m[Head(ks)])),
                    m, Tail(ks))

Copied(r) == [h |-> r.h, v |-> r.v]

deepcopy(h, v) == Copied(Copy(h, EmptyMap, v))

-----------------------------------------------------------------------------
(* JSON helpers (src/jtl.py).  An operator that mutates or allocates takes *)
(* the heap and returns the new heap with its result.                      *)

\* dst[k] = <the value r holds>, on r's heap; d is the cell of dst.
SetKey(d, k, r) == [r.h EXCEPT ![d] = JObj(Put(r.h[d].m, k, r.v))]

\* parent[i] = <the value r holds>, on r's heap; a is the cell of parent.
SetIndex(a, i, r) == [r.h EXCEPT ![a] = JArr([r.h[a].e EXCEPT ![i + 1] = r.v])]

\* A merge of one key that overwrites whatever dst holds under it.
MergeItemOverwriting(h, d, k, v) == SetKey(d, k, deepcopy(h, v))

\* deep_merge(dst, src): merges in place when both are dicts.
RECURSIVE deep_merge(_, _, _), MergeItems(_, _, _, _), MergeItem(_, _, _, _)
deep_merge(h, dst, src) ==
    IF ~IsDict(h, dst) \/ ~IsDict(h, src) THEN deepcopy(h, src)
    ELSE [h |-> MergeItems(h, dst.a, src.a, SetToSeq(DOMAIN h[src.a].m)), v |-> dst]
MergeItems(h, d, s, ks) ==
    IF ks = <<>> THEN h
    ELSE MergeItems(MergeItem(h, d, Head(ks), h[s].m[Head(ks)]), d, s, Tail(ks))
MergeItem(h, d, k, v) ==
    IF k \in DOMAIN h[d].m /\ IsDict(h, h[d].m[k]) /\ IsDict(h, v)
    THEN deep_merge(h, h[d].m[k], v).h
    ELSE SetKey(d, k, deepcopy(h, v))

\* A string upsert that joins its operands even when one is empty.
UpsertStrJoining(existing, new_value, delim) ==
    JStr(existing.s \o delim \o new_value.s)

\* The strings branch of _upsert_value.
UpsertStr(existing, new_value, delim) ==
    IF existing.s = "" THEN new_value
    ELSE IF new_value.s = "" THEN existing
    ELSE JStr(existing.s \o delim \o new_value.s)

\* An array upsert that appends a list as one element.
UpsertListAppending(h, existing, new_value) ==
    New(h, JArr(Append(h[existing.a].e, new_value)))

\* The arrays branch of _upsert_value: a new list, holding the elements of
\* existing and new_value themselves.
UpsertList(h, existing, new_value) ==
    IF IsList(h, new_value)
    THEN New(h, JArr(h[existing.a].e \o h[new_value.a].e))
    ELSE New(h, JArr(Append(h[existing.a].e, new_value)))

_upsert_value(h, existing, new_value, delim) ==
    IF IsStr(existing) /\ IsStr(new_value) THEN
        [h |-> h, v |-> UpsertStr(existing, new_value, delim)]
    ELSE IF IsList(h, existing) THEN UpsertList(h, existing, new_value)
    ELSE IF IsDict(h, existing) /\ IsDict(h, new_value) THEN
        [h |-> deep_merge(h, existing, new_value).h, v |-> existing]
    ELSE IF existing = JNull THEN deepcopy(h, new_value)
    ELSE deepcopy(h, new_value)

\* Path segments: a str key or an int index.
SKey(s) == [k |-> "key", key |-> s]

SIdx(i) == [k |-> "idx", i |-> i]

IsInt(seg) == seg.k = "idx"

\* A growth that pads one slot past the index.
GrowPastIndex(h, a, seg) ==
    IF Len(h[a].e) > seg THEN h
    ELSE [h EXCEPT ![a] = JArr(h[a].e \o [i \in 1..(seg + 2 - Len(h[a].e)) |-> JNull])]

\* while len(cur) <= seg: cur.append(None), for the list in cell a
Grow(h, a, seg) ==
    IF Len(h[a].e) > seg THEN h
    ELSE [h EXCEPT ![a] = JArr(h[a].e \o [i \in 1..(seg + 1 - Len(h[a].e)) |-> JNull])]

\* A fresh container that is an object whatever segment follows.
FreshObject(nxt) == JObj(EmptyMap)

\* [] if isinstance(nxt, int) else {}
Fresh(nxt) == IF IsInt(nxt) THEN JArr(<<>>) ELSE JObj(EmptyMap)

\* if cur[seg] is None: cur[seg] = <fresh container>, for the list in cell a
FillIndex(h, a, seg, nxt) ==
    IF h[a].e[seg + 1] = JNull THEN SetIndex(a, seg, New(h, Fresh(nxt))) ELSE h

\* A fill that also puts a fresh container over a value that is no container.
FillKeyCoercing(h, a, key, nxt) ==
    IF key \notin DOMAIN h[a].m \/ h[a].m[key] = JNull
       \/ (~IsList(h, h[a].m[key]) /\ ~IsDict(h, h[a].m[key]))
    THEN SetKey(a, key, New(h, Fresh(nxt))) ELSE h

\* if seg not in cur or cur[seg] is None: cur[seg] = <fresh container>
FillKey(h, a, key, nxt) ==
    IF key \notin DOMAIN h[a].m \/ h[a].m[key] = JNull
    THEN SetKey(a, key, New(h, Fresh(nxt))) ELSE h

TypeError(h) == [h |-> h, err |-> "TypeError", parent |-> JNull]

\* The loop of _ensure_parent from its j-th segment, at cur.
RECURSIVE EnsureFrom(_, _, _, _), EnterIndex(_, _, _, _, _), EnterKey(_, _, _, _, _)
EnsureFrom(h, cur, path_segments, j) ==
    IF j > Len(path_segments) - 1 THEN [h |-> h, err |-> "", parent |-> cur]
    ELSE IF IsInt(path_segments[j]) THEN
        IF ~IsList(h, cur) THEN TypeError(h)
        ELSE EnterIndex(FillIndex(Grow(h, cur.a, path_segments[j].i), cur.a,
                                  path_segments[j].i, path_segments[j + 1]),
                        cur.a, path_segments[j].i, path_segments, j)
    ELSE
        IF ~IsDict(h, cur) THEN TypeError(h)
        ELSE EnterKey(FillKey(h, cur.a, path_segments[j].key, path_segments[j + 1]),
                      cur.a, path_segments[j].key, path_segments, j)
EnterIndex(h, a, seg, path_segments, j) ==
    EnsureFrom(h, h[a].e[seg + 1], path_segments, j + 1)
EnterKey(h, a, key, path_segments, j) ==
    EnsureFrom(h, h[a].m[key], path_segments, j + 1)

_ensure_parent(h, container, path_segments) ==
    IF path_segments = <<>> THEN [h |-> h, err |-> "", parent |-> JNull]
    ELSE EnsureFrom(h, container, path_segments, 1)

\* A store that upserts in either mode.
StoredUpserting(h, existing, value, m, delim) ==
    _upsert_value(h, existing, value, delim)

\* The value set_path_value stores: from the value now in the slot, the new
\* value and the mode.
Stored(h, existing, value, m, delim) ==
    IF m = "replace" THEN deepcopy(h, value)
    ELSE _upsert_value(h, existing, value, delim)

\* parent.get(last, None)
Get(h, a, key) == IF key \in DOMAIN h[a].m THEN h[a].m[key] ELSE JNull

\* set_path_value on a list parent whose index last exists.
SetAtIndex(h, a, last, root, value, m, delim) ==
    [h |-> SetIndex(a, last, Stored(h, h[a].e[last + 1], value, m, delim)),
     err |-> "", ret |-> root]

\* set_path_value from the parent that _ensure_parent returned.
SetAtParent(ep, last, root, value, m, delim) ==
    IF ep.err # "" THEN [h |-> ep.h, err |-> ep.err, ret |-> JNull]
    ELSE IF IsInt(last) THEN
        IF ~IsList(ep.h, ep.parent)
        THEN [h |-> ep.h, err |-> "TypeError", ret |-> JNull]
        ELSE SetAtIndex(Grow(ep.h, ep.parent.a, last.i), ep.parent.a, last.i,
                        root, value, m, delim)
    ELSE
        IF ~IsDict(ep.h, ep.parent)
        THEN [h |-> ep.h, err |-> "TypeError", ret |-> JNull]
        ELSE [h |-> SetKey(ep.parent.a, last.key,
                           Stored(ep.h, Get(ep.h, ep.parent.a, last.key),
                                  value, m, delim)),
              err |-> "", ret |-> root]

\* The root assignment of set_path_value returns the value and stores nothing.
RootValue(r) == [h |-> r.h, err |-> "", ret |-> r.v]

\* set_path_value: ret is the value it returns.
set_path_value(h, root, path_segments, value, m, delim) ==
    IF path_segments = <<>> THEN RootValue(Stored(h, root, value, m, delim))
    ELSE SetAtParent(_ensure_parent(h, root, path_segments),
                     path_segments[Len(path_segments)], root, value, m, delim)

-----------------------------------------------------------------------------
(* JQ path parsing.  A path is a sequence of one-character strings.        *)

Letters ==
    {"a", "b", "c", "d", "e", "f", "g", "h", "i", "j", "k", "l", "m", "n", "o",
     "p", "q", "r", "s", "t", "u", "v", "w", "x", "y", "z",
     "A", "B", "C", "D", "E", "F", "G", "H", "I", "J", "K", "L", "M", "N", "O",
     "P", "Q", "R", "S", "T", "U", "V", "W", "X", "Y", "Z", "_"}

Digits == {"0", "1", "2", "3", "4", "5", "6", "7", "8", "9"}

\* \s of the regular expression
Spaces == {" ", "\t", "\n", "\r", "\f"}

DigitValue(c) ==
    CASE c = "0" -> 0 [] c = "1" -> 1 [] c = "2" -> 2 [] c = "3" -> 3 [] c = "4" -> 4
      [] c = "5" -> 5 [] c = "6" -> 6 [] c = "7" -> 7 [] c = "8" -> 8 [] c = "9" -> 9

\* int(idx)
RECURSIVE ToInt(_, _)
ToInt(cs, acc) ==
    IF cs = <<>> THEN acc ELSE ToInt(Tail(cs), 10 * acc + DigitValue(Head(cs)))

\* The characters joined into a str.
RECURSIVE Join(_)
Join(cs) == IF cs = <<>> THEN "" ELSE Head(cs) \o Join(Tail(cs))

\* _unescape: the unicode_escape decoding of \n, \t, \r, \", \', \; another
\* escaped letter is kept with its backslash, as Python does.
RECURSIVE _unescape(_)
_unescape(cs) ==
    IF cs = <<>> THEN ""
    ELSE IF Head(cs) = "\\" /\ Len(cs) >= 2 THEN
        LET c == cs[2]
            d == CASE c = "n" -> "\n" [] c = "t" -> "\t" [] c = "r" -> "\r"
                   [] c = "\"" -> "\"" [] c = "'" -> "'" [] c = "\\" -> "\\"
                   [] OTHER -> "\\" \o c
        IN  d \o _unescape(SubSeq(cs, 3, Len(cs)))
    ELSE Head(cs) \o _unescape(Tail(cs))

\* The first position from i on that holds no character of S (greedy S*).
RECURSIVE SkipWhile(_, _, _)
SkipWhile(path, i, S) ==
    IF i <= Len(path) /\ path[i] \in S THEN SkipWhile(path, i + 1, S) ELSE i

\* (?:[^q\\]|\\.)* from i: the position after the quoted content.
RECURSIVE SkipQuoted(_, _, _)
SkipQuoted(path, i, q) ==
    IF i > Len(path) THEN i
    ELSE IF path[i] = "\\" THEN
        IF i + 1 <= Len(path) /\ path[i + 1] # "\n"
        THEN SkipQuoted(path, i + 2, q) ELSE i
    ELSE IF path[i] = q THEN i
    ELSE SkipQuoted(path, i + 1, q)

NoMatch == [ok |-> FALSE, seg |-> SKey(""), end |-> 0]

\* \.([A-Za-z_][A-Za-z0-9_]*)
MatchName(path, i) ==
    IF path[i] = "." /\ i + 1 <= Len(path) /\ path[i + 1] \in Letters THEN
        LET e == SkipWhile(path, i + 1, Letters \cup Digits)
        IN  [ok |-> TRUE, seg |-> SKey(Join(SubSeq(path, i + 1, e - 1))), end |-> e]
    ELSE NoMatch

\* \[\s*([0-9]+)\s*\]
MatchIndex(path, i) ==
    IF path[i] # "[" THEN NoMatch
    ELSE LET a == SkipWhile(path, i + 1, Spaces)
             b == SkipWhile(path, a, Digits)
             c == SkipWhile(path, b, Spaces)
         IN  IF b > a /\ c <= Len(path) /\ path[c] = "]"
             THEN [ok |-> TRUE, seg |-> SIdx(ToInt(SubSeq(path, a, b - 1), 0)),
                   end |-> c + 1]
             ELSE NoMatch

\* \[\s*"((?:[^"\\]|\\.)*)"\s*\] and the same with '
MatchQuoted(path, i, q) ==
    IF path[i] # "[" THEN NoMatch
    ELSE LET a == SkipWhile(path, i + 1, Spaces)
         IN  IF a > Len(path) \/ path[a] # q THEN NoMatch
             ELSE LET b == SkipQuoted(path, a + 1, q)
                      c == SkipWhile(path, b + 1, Spaces)
                  IN  IF b <= Len(path) /\ path[b] = q
                         /\ c <= Len(path) /\ path[c] = "]"
                      THEN [ok |-> TRUE,
                            seg |-> SKey(_unescape(SubSeq(path, a + 1, b - 1))),
                            end |-> c + 1]
                      ELSE NoMatch

\* _PATH_TOKEN_RE.match(path, i): the alternatives in their order.
OrElse(m, other) == IF m.ok THEN m ELSE other

_PATH_TOKEN_RE(path, i) ==
    OrElse(MatchName(path, i),
           OrElse(MatchIndex(path, i),
                  OrElse(MatchQuoted(path, i, "\""), MatchQuoted(path, i, "'"))))

\* The while loop of parse_jq_path; i counts from 1.
RECURSIVE ParseFrom(_, _, _), ParseToken(_, _, _, _)

\* A loop that returns the segments it has when no token matches.
ParseTokenLenient(path, i, sgs, m) ==
    IF ~m.ok THEN
        IF i = 1 /\ path # <<".">> THEN [err |-> "ValueError", segs |-> <<>>]
        ELSE [err |-> "", segs |-> sgs]
    ELSE ParseFrom(path, m.end, Append(sgs, m.seg))

ParseFrom(path, i, sgs) ==
    IF i > Len(path) THEN [err |-> "", segs |-> sgs]
    ELSE ParseToken(path, i, sgs, _PATH_TOKEN_RE(path, i))
ParseToken(path, i, sgs, m) ==
    IF ~m.ok THEN
        IF i = 1 /\ path = <<".">> THEN [err |-> "", segs |-> <<>>]
        ELSE [err |-> "ValueError", segs |-> <<>>]
    ELSE ParseFrom(path, m.end, Append(sgs, m.seg))

parse_jq_path(path) ==
    IF path = <<>> \/ path[1] # "." THEN [err |-> "ValueError", segs |-> <<>>]
    ELSE ParseFrom(path, 1, <<>>)

-----------------------------------------------------------------------------
(* The source expressions.  jq is an external evaluator; the model gives   *)
(* it these forms:  .k   .k[]   $ctx.k   empty                             *)

Field(k) == [op |-> "field", k |-> k]

Each(k) == [op |-> "each", k |-> k]

CtxField(k) == [op |-> "ctx", k |-> k]

Empty == [op |-> "empty"]

\* A str of a spec file whose characters the program decodes.
Text(cs) == [t |-> "text", cs |-> cs]

\* jq's .k on a document tree: null on null and on a missing key.
JqField(doc, k) ==
    IF doc.t = "obj" THEN
        [err |-> "", out |-> <<IF k \in DOMAIN doc.m THEN doc.m[k] ELSE JNull>>]
    ELSE IF doc.t = "null" THEN [err |-> "", out |-> <<JNull>>]
    ELSE [err |-> "ValueError", out |-> <<>>]

\* jq's .[] on a document tree: the elements of an array, the values of an object.
JqIterate(v) ==
    IF v.t = "arr" THEN [err |-> "", out |-> v.e]
    ELSE IF v.t = "obj" THEN
        [err |-> "", out |-> [i \in 1..Cardinality(DOMAIN v.m) |->
                                v.m[SetToSeq(DOMAIN v.m)[i]]]]
    ELSE [err |-> "ValueError", out |-> <<>>]

\* jq.compile(wrapped).input(src_obj).all() on the serialised documents.
JqEach(r) == IF r.err # "" THEN r ELSE JqIterate(r.out[1])

Jq(expr, src_tree, ctx_tree) ==
    CASE expr.op = "field" -> JqField(src_tree, expr.k)
      [] expr.op = "ctx" -> JqField(ctx_tree, expr.k)
      [] expr.op = "each" -> JqEach(JqField(src_tree, expr.k))
      [] OTHER -> [err |-> "", out |-> <<>>]

\* list(prog.input(src_obj).all()): a fresh list of fresh objects, or jq's error.
NoError(r) == [h |-> r.h, err |-> "", v |-> r.v]

Output(h, r) ==
    IF r.err # "" THEN [h |-> h, err |-> r.err, v |-> JNull]
    ELSE NoError(Alloc(h, JArr(r.out)))

evaluate_src(h, expr, src, c) == Output(h, Jq(expr, Val(h, src), Val(h, c)))

\* _decode_delim: the unicode_escape decoding of the delimiter's characters.
_decode_delim(cs) == _unescape(cs)

\* str.lower on the mode names the model uses.
Lower(s) ==
    CASE s = "REPLACE" -> "replace"
      [] s = "Replace" -> "replace"
      [] s = "UPSERT" -> "upsert"
      [] OTHER -> s

\* mapping.get("mode", "upsert").lower()
ModeOf(mapping) ==
    Lower(IF "mode" \in DOMAIN mapping THEN mapping.mode ELSE "upsert")

\* The step's delimiter whatever the mapping says.
EffDelimOfStep(mapping, delim) == delim

\* The per-row delimiter, else the step's.
EffDelim(mapping, delim) ==
    IF "delimiter" \in DOMAIN mapping /\ mapping.delimiter # JNull
    THEN _decode_delim(mapping.delimiter.cs) ELSE delim

\* The value a replace mapping writes.
Collapse(h, res) ==
    IF Len(h[res.a].e) = 0 THEN JNull
    ELSE IF Len(h[res.a].e) = 1 THEN h[res.a].e[1]
    ELSE res

-----------------------------------------------------------------------------
(* The documents and mappings the model runs on.                           *)

MaxMappings == 2

S(x) == JStr(x)

SrcDocs ==
    {JObj([k \in {"a", "b", "e", "l", "o", "v", "n"} |->
        CASE k = "a" -> S("x")
          [] k = "b" -> S("y")
          [] k = "e" -> S("")
          [] k = "l" -> JArr(<<S("p"), S("q")>>)
          [] k = "o" -> JObj([f \in {"x", "w"} |->
                              IF f = "x" THEN JNum(1) ELSE JObj(One("k", JNum(2)))])
          [] k = "v" -> JArr(<<JObj(One("y", JNum(2))), JArr(<<JNum(3)>>)>>)
          [] OTHER -> JNum(7)])}

CtxDocs == {JObj(One("c", S("z")))}

DstSeeds ==
    {JObj(EmptyMap),
     JObj(One("t", S("s"))),
     JObj(One("t", S(""))),
     JObj(One("t", JNull)),
     JObj(One("t", JArr(<<JNum(0), JNull>>))),
     JObj(One("t", JObj([f \in {"x", "z", "w"} |->
                         CASE f = "x" -> JNum(0) [] f = "z" -> JNum(9)
                           [] OTHER -> JObj(One("j", JNum(5)))]))),
     JArr(<<S("r")>>),
     S("s"),
     JNull}

Exprs ==
    {Field("a"), Field("b"), Field("e"), Field("l"), Field("o"), Field("zz"),
     Each("l"), Each("v"), Each("n"), CtxField("c"), Empty}

PathT == <<".", "t">>

Paths ==
    {<<".">>, PathT, <<".", "t", "[", "1", "]">>, <<".", "t", ".", "x">>,
     <<".", "t", "[", "1", "]", ".", "k">>,
     <<".", "a", ".", "b", "[", "2", "]", ".", "c">>, <<"t">>}

\* Every expression to every path in both modes, and the other shapes of a
\* mapping.
Mappings ==
    {[src |-> e, dst |-> p] : e \in Exprs, p \in Paths}
    \cup {[src |-> e, dst |-> p, mode |-> "replace"] : e \in Exprs, p \in Paths}
    \cup {[src |-> Field("a"), dst |-> PathT, mode |-> "REPLACE"],
          [src |-> Field("a"), dst |-> PathT, mode |-> "merge"],
          [src |-> Each("n"), dst |-> <<"t">>, mode |-> "merge"],
          [src |-> Field("a"), dst |-> PathT, delimiter |-> Text(<<"\\", "t">>)],
          [src |-> Field("a"), dst |-> PathT, delimiter |-> JNull],
          [src |-> Field("a")]}

\* The mappings that are combined into longer lists.
CoreMappings ==
    {[src |-> Field("a"), dst |-> PathT],
     [src |-> Field("b"), dst |-> PathT],
     [src |-> Each("l"), dst |-> PathT],
     [src |-> Field("l"), dst |-> PathT],
     [src |-> Field("o"), dst |-> PathT],
     [src |-> Field("a"), dst |-> PathT, mode |-> "replace"],
     [src |-> Each("l"), dst |-> PathT, mode |-> "replace"],
     [src |-> Empty, dst |-> PathT, mode |-> "replace"],
     [src |-> Field("o"), dst |-> <<".", "t", "[", "1", "]">>],
     [src |-> Field("a"), dst |-> <<".", "t", ".", "x">>],
     [src |-> Field("o"), dst |-> <<".">>],
     [src |-> Field("l"), dst |-> <<".">>, mode |-> "replace"]}

\* A list of core mappings, or one mapping repeated, of up to MaxMappings.
MappingLists ==
    UNION {[1..n -> CoreMappings] : n \in 0..MaxMappings}
    \cup {[i \in 1..n |-> m] : m \in Mappings, n \in 1..MaxMappings}

Delimiters == {"\n"}

-----------------------------------------------------------------------------
(* run_etl and apply_mapping.                                              *)

\* run_meta has not returned.
NoReturn == [t |-> "none"]

\* No run_meta is running.
NoChain ==
    /\ meta_ctx = JNull
    /\ steps = <<>>
    /\ default_delimiter = ""
    /\ idx = 0
    /\ prev_obj = JNull
    /\ final_obj = JNull
    /\ returned = NoReturn

\* No call of load_etl_file or parse_jq_path is observed.
NoCalls ==
    /\ raw = JNull
    /\ loaded = JNull
    /\ dst_path = <<>>
    /\ parsed = JNull

\* apply_mapping is not running.
NoMapping ==
    /\ mi = 0
    /\ err = ""
    /\ why = ""
    /\ mode = ""
    /\ eff_delim = ""
    /\ results = JNull
    /\ segs = <<>>
    /\ ri = 0

Init ==
    /\ dst_seed \in DstSeeds
    /\ mappings \in MappingLists
    /\ delimiter \in Delimiters
    /\ \E s \in SrcDocs, c \in CtxDocs :
          LET a1 == Alloc(<<>>, s)
              a2 == Alloc(a1.h, dst_seed)
              a3 == Alloc(a2.h, c)
          IN  /\ heap = a3.h
              /\ src_obj = a1.v
              /\ dst_obj = a2.v
              /\ ctx = a3.v
    /\ prelude = <<>>
    /\ pc = "run_etl"
    /\ NoMapping
    /\ NoChain
    /\ NoCalls

\* The inputs of a run: nothing assigns them.
Inputs == <<src_obj, dst_obj, dst_seed, ctx, mappings, delimiter, prelude>>

\* apply_mapping once the source is evaluated (ev) and the path parsed (ps).
Prepared(mapping, delim, ev, ps) ==
    IF ev.err # ""
    THEN [h |-> ev.h, err |-> ev.err, why |-> "jq", mode |-> ModeOf(mapping),
          eff_delim |-> EffDelim(mapping, delim), results |-> JNull, segs |-> <<>>]
    ELSE [h |-> ev.h, err |-> ps.err, why |-> IF ps.err # "" THEN "dst path" ELSE "",
          mode |-> ModeOf(mapping),
          eff_delim |-> EffDelim(mapping, delim), results |-> ev.v, segs |-> ps.segs]

\* An apply_mapping that checks the mode after it has evaluated the
\* expression and parsed the path.
PrepareLate(h, mapping, src, c, delim) ==
    IF \/ ModeOf(mapping) \in {"upsert", "replace"}
       \/ evaluate_src(h, mapping.src, src, c).err # ""
       \/ parse_jq_path(mapping.dst).err # ""
    THEN Prepared(mapping, delim, evaluate_src(h, mapping.src, src, c),
                  parse_jq_path(mapping.dst))
    ELSE [h |-> evaluate_src(h, mapping.src, src, c).h, err |-> "ValueError",
          why |-> "Unsupported mode", mode |-> ModeOf(mapping), eff_delim |-> "",
          results |-> JNull, segs |-> <<>>]

\* apply_mapping up to its writes: mode, eff_delim, results and segs, or the
\* exception raised on the way.
Prepare(h, mapping, src, c, delim) ==
    IF ModeOf(mapping) \notin {"upsert", "replace"}
    THEN [h |-> h, err |-> "ValueError", why |-> "Unsupported mode",
          mode |-> ModeOf(mapping), eff_delim |-> "", results |-> JNull, segs |-> <<>>]
    ELSE Prepared(mapping, delim, evaluate_src(h, mapping.src, src, c),
                  parse_jq_path(mapping.dst))

Begin(p) ==
    /\ heap' = p.h
    /\ mode' = p.mode
    /\ eff_delim' = p.eff_delim
    /\ results' = p.results
    /\ segs' = p.segs
    /\ ri' = 0
    /\ pc' = IF p.err # "" THEN "raised" ELSE "apply_mapping"
    /\ err' = p.err
    /\ why' = p.why

\* run_etl takes its next mapping and apply_mapping evaluates it.
RunMapping ==
    /\ pc = "run_etl"
    /\ mi < Len(mappings)
    /\ IF "src" \notin DOMAIN mappings[mi + 1] \/ "dst" \notin DOMAIN mappings[mi + 1]
       THEN /\ pc' = "raised"
            /\ err' = "ValueError"
            /\ why' = "Each mapping must include 'src' and 'dst'"
            /\ UNCHANGED <<heap, mode, eff_delim, results, segs, ri>>
       ELSE Begin(Prepare(heap, mappings[mi + 1], src_obj, ctx, delimiter))
    /\ UNCHANGED <<Inputs, mi, chain, calls>>

Replaced(w) ==
    /\ heap' = w.h
    /\ err' = w.err
    /\ why' = IF w.err # "" THEN "navigate" ELSE ""
    /\ pc' = IF w.err # "" THEN "raised" ELSE "run_etl"
    /\ mi' = IF w.err # "" THEN mi ELSE mi + 1

\* apply_mapping in replace mode: one write of the collapsed results.
ReplaceWrite ==
    /\ pc = "apply_mapping"
    /\ mode = "replace"
    /\ Replaced(set_path_value(heap, dst_obj, segs, Collapse(heap, results),
                               "replace", eff_delim))
    /\ UNCHANGED <<Inputs, mode, eff_delim, results, segs, ri, chain, calls>>

Upserted(w) ==
    /\ heap' = w.h
    /\ err' = w.err
    /\ why' = IF w.err # "" THEN "navigate" ELSE ""
    /\ pc' = IF w.err # "" THEN "raised" ELSE "apply_mapping"
    /\ ri' = IF w.err # "" THEN ri ELSE ri + 1

\* apply_mapping in upsert mode: one turn of the loop over the results.
UpsertWrite ==
    /\ pc = "apply_mapping"
    /\ mode = "upsert"
    /\ ri < Len(heap[results.a].e)
    /\ Upserted(set_path_value(heap, dst_obj, segs, heap[results.a].e[ri + 1],
                               "upsert", eff_delim))
    /\ UNCHANGED <<Inputs, mi, mode, eff_delim, results, segs, chain, calls>>

\* An upsert that writes null when there is no result, as replace does.
UpsertReturnWriting ==
    /\ pc = "apply_mapping"
    /\ mode = "upsert"
    /\ ri = Len(heap[results.a].e)
    /\ heap' = IF ri = 0
               THEN set_path_value(heap, dst_obj, segs, JNull, "upsert", eff_delim).h
               ELSE heap
    /\ pc' = "run_etl"
    /\ mi' = mi + 1
    /\ UNCHANGED <<Inputs, err, why, mode, eff_delim, results, segs, ri, chain, calls>>

\* apply_mapping in upsert mode returns when the results are exhausted.
UpsertReturn ==
    /\ pc = "apply_mapping"
    /\ mode = "upsert"
    /\ ri = Len(heap[results.a].e)
    /\ pc' = "run_etl"
    /\ mi' = mi + 1
    /\ UNCHANGED <<Inputs, heap, err, why, mode, eff_delim, results, segs, ri, chain,
                   calls>>

\* run_etl returns dst_obj.
RunEtlReturn ==
    /\ pc = "run_etl"
    /\ mi = Len(mappings)
    /\ pc' = "done"
    /\ UNCHANGED <<Inputs, heap, mi, err, why, mode, eff_delim, results, segs, ri,
                   chain, calls>>

Next ==
    \/ RunMapping
    \/ ReplaceWrite
    \/ UpsertWrite
    \/ UpsertReturn
    \/ RunEtlReturn

Spec == Init /\ [][Next]_vars

-----------------------------------------------------------------------------
(* ETL spec loading.  The content of a spec file is a list (JArr) of items, *)
(* an object (JObj) with the keys mappings, ctx and with, or another JSON   *)
(* value.  An item is a dict: a mapping, {"ctx": ...} or {"with": ...}.     *)

\* Python's truth value of a JSON value or of a str.
Truthy(v) ==
    v \notin {JNull, JObj(EmptyMap), JArr(<<>>), JStr(""), JNum(0), JBool(FALSE),
              Text(<<>>)}

\* str.strip()
RECURSIVE LStrip(_)
LStrip(cs) ==
    IF cs # <<>> /\ Head(cs) \in Spaces THEN LStrip(Tail(cs)) ELSE cs

RECURSIVE RStrip(_)
RStrip(cs) ==
    IF cs # <<>> /\ cs[Len(cs)] \in Spaces THEN RStrip(SubSeq(cs, 1, Len(cs) - 1)) ELSE cs

Strip(cs) == RStrip(LStrip(cs))

\* (item["with"] or "").strip()
Trimmed(v) == IF Truthy(v) THEN Strip(v.cs) ELSE <<>>

\* deep_merge(ctx, item["ctx"]), the item's ctx being the object r holds.
CtxMerged(acc, r) == [acc EXCEPT !.h = deep_merge(r.h, acc.ctx, r.v).h]

\* A loader that takes the first "with" item and ignores the later ones.
LoadItemFirstWith(acc, item) ==
    IF DOMAIN item = {"ctx"} THEN
        IF Truthy(item.ctx) THEN CtxMerged(acc, Alloc(acc.h, item.ctx)) ELSE acc
    ELSE IF DOMAIN item = {"with"} THEN
        IF acc.prelude = <<>> THEN [acc EXCEPT !.prelude = Trimmed(item.with)] ELSE acc
    ELSE [acc EXCEPT !.mappings = Append(@, item)]

\* The body of the loop over the items of a list.
LoadItem(acc, item) ==
    IF DOMAIN item = {"ctx"} THEN
        IF Truthy(item.ctx) THEN CtxMerged(acc, Alloc(acc.h, item.ctx)) ELSE acc
    ELSE IF DOMAIN item = {"with"} THEN [acc EXCEPT !.prelude = Trimmed(item.with)]
    ELSE [acc EXCEPT !.mappings = Append(@, item)]

RECURSIVE LoadItems(_, _)
LoadItems(acc, items) ==
    IF items = <<>> THEN acc ELSE LoadItems(LoadItem(acc, Head(items)), Tail(items))

\* mappings, ctx, prelude = [], {}, "" with the new dict in r.
Loading(r) ==
    [h |-> r.h, err |-> "", why |-> "", mappings |-> <<>>, ctx |-> r.v, prelude |-> <<>>]

\* The object form: ctx is the file's own ctx object, r, when it is truthy.
LoadObject(m, r) ==
    [h |-> r.h, err |-> "", why |-> "",
     mappings |-> IF "mappings" \in DOMAIN m THEN m.mappings ELSE <<>>,
     ctx |-> r.v,
     prelude |-> IF "with" \in DOMAIN m THEN Trimmed(m.with) ELSE <<>>]

\* load_etl_file on the content of the file.
load_etl_file(h, content) ==
    IF content.t = "arr" THEN LoadItems(Loading(New(h, JObj(EmptyMap))), content.e)
    ELSE IF content.t = "obj" THEN
        LoadObject(content.m,
                   IF "ctx" \in DOMAIN content.m /\ Truthy(content.m.ctx)
                   THEN Alloc(h, content.m.ctx) ELSE New(h, JObj(EmptyMap)))
    ELSE [h |-> h, err |-> "ValueError", why |-> "ETL spec must be a JSON array or object",
          mappings |-> <<>>, ctx |-> JNull, prelude |-> <<>>]

-----------------------------------------------------------------------------
(* The files a chain reads.  A step names its files by JSON strings.       *)

\* Two preludes, as the strs of a spec file.
WithF == Text(<<" ", "f", ";", "\n">>)

WithG == Text(<<"g", ";">>)

Obj2(k1, v1, k2, v2) == JObj([k \in {k1, k2} |-> IF k = k1 THEN v1 ELSE v2])

PathU == <<".", "u">>

EtlFiles ==
    [name \in {"e0", "e1", "e2", "e3", "bad"} |->
        CASE name = "e0" -> JArr(<<>>)
          [] name = "e1" ->
                JArr(<<[ctx |-> Obj2("d", S("e"), "o", JObj(One("q", JNum(2))))],
                       [src |-> CtxField("c"), dst |-> PathT],
                       [with |-> WithF],
                       [src |-> Field("a"), dst |-> PathT]>>)
          [] name = "e2" ->
                JObj([k \in {"mappings", "ctx"} |->
                        IF k = "ctx" THEN JObj(One("c", S("f")))
                        ELSE <<[src |-> Field("t"), dst |-> PathT,
                                delimiter |-> Text(<<"+">>)],
                               [src |-> Field("t"), dst |-> PathU, mode |-> "replace"],
                               [src |-> CtxField("c"), dst |-> PathU]>>])
          [] name = "e3" ->
                JArr(<<[src |-> Field("a"), dst |-> PathU, delimiter |-> JNull],
                       [src |-> Field("a"), dst |-> <<".", "t", ".", "x">>]>>)
          [] OTHER -> S("x")]

SrcFiles == [name \in {"src.json"} |-> CHOOSE d \in SrcDocs : TRUE]

DstFiles ==
    [name \in {"dst.json", "null.json"} |->
        IF name = "dst.json" THEN JObj(One("t", S("s"))) ELSE JNull]

Prev == S("$prev")

\* The steps the chains of the model are made of.
Steps ==
    {[etl |-> S("e1"), src |-> S("src.json")],
     [etl |-> S("e1"), src |-> S("src.json"), dst |-> S("dst.json"),
      ctx |-> Obj2("c", S("k"), "o", JObj(One("r", JNum(3)))),
      options |-> [delimiter |-> S("|")]],
     [etl |-> S("e2"), src |-> Prev, dst |-> Prev],
     [etl |-> S("e2"), src |-> Prev, options |-> EmptyMap],
     [etl |-> S("e3"), src |-> S("src.json"), dst |-> Prev, ctx |-> JNull],
     [etl |-> S("e3"), src |-> S("src.json"), dst |-> S("dst.json")],
     [etl |-> S("e0"), src |-> S("src.json"), dst |-> S("null.json")],
     [etl |-> S("e3"), src |-> S("src.json"), dst |-> S("new.json")],
     [etl |-> S("bad"), src |-> Prev],
     [etl |-> S("e1"), src |-> S("absent.json"), dst |-> Prev],
     [src |-> Prev],
     [etl |-> S("e1"), dst |-> Prev]}

MaxSteps == 2

Chains == UNION {[1..n -> Steps] : n \in 0..MaxSteps}

\* default_delimiter: "\n" unless --delimiter is given.
Defaults == {"\n", ","}

MetaCtxs ==
    {JObj(EmptyMap),
     Obj2("c", S("m"), "o", Obj2("p", JNum(1), "q", JNum(1)))}

-----------------------------------------------------------------------------
(* run_meta.                                                               *)

\* step.get(k)
StepGet(step, k) == IF k \in DOMAIN step THEN step[k] ELSE JNull

\* step.get("ctx", {}) or {}
StepCtx(step) ==
    IF Truthy(StepGet(step, "ctx")) THEN step.ctx ELSE JObj(EmptyMap)

\* options.get("delimiter", default_delimiter)
StepDelim(step, default) ==
    IF "options" \in DOMAIN step /\ "delimiter" \in DOMAIN step.options
    THEN step.options.delimiter.s ELSE default

\* What the body of the for loop has when it raises.
Raise(h, e, w) ==
    [h |-> h, err |-> e, why |-> w, mappings |-> <<>>, prelude |-> <<>>,
     ctx |-> JNull, src |-> JNull, dst |-> JNull]

\* load_etl_file(etl_path): open fails when there is no such file.
ReadEtl(h, name) ==
    IF name \in DOMAIN EtlFiles THEN load_etl_file(h, EtlFiles[name])
    ELSE [h |-> h, err |-> "FileNotFoundError", why |-> "open", mappings |-> <<>>,
          ctx |-> JNull, prelude |-> <<>>]

\* The statements of the loop body run one after another: what a statement
\* computes is a value ({... : x \in {value}}) for the statements after it.

\* deep_merge(eff_ctx, c) for the copy eff_ctx in e.
MergedInto(e, c) == [h |-> deep_merge(e.h, e.v, c).h, v |-> e.v]

\* deep_merge(eff_ctx, step_ctx), step_ctx being the object r holds.
MergedStep(e, r) == [h |-> deep_merge(r.h, e.v, r.v).h, v |-> e.v]

MergeStepCtx(e, step_ctx) ==
    CHOOSE m \in {MergedStep(e, r) : r \in {Alloc(e.h, step_ctx)}} : TRUE

\* An effective context that is merged into meta_ctx itself.
EffCtxShared(h, mctx, etl_ctx, step_ctx) ==
    CHOOSE r \in {MergeStepCtx(e, step_ctx) :
                     e \in {MergedInto([h |-> h, v |-> mctx], etl_ctx)}} : TRUE

\* Effective context: meta < etl < step
EffCtx(h, mctx, etl_ctx, step_ctx) ==
    CHOOSE r \in {MergeStepCtx(e, step_ctx) :
                     e \in {MergedInto(eff_ctx, etl_ctx) :
                               eff_ctx \in {deepcopy(h, mctx)}}} : TRUE

Found(r) == [h |-> r.h, err |-> "", why |-> "", v |-> r.v]

NotFound(h, e, w) == [h |-> h, err |-> e, why |-> w, v |-> JNull]

\* Resolve SRC object
ResolveSrc(h, src_rel, prev) ==
    IF src_rel = Prev THEN
        IF prev = JNull
        THEN NotFound(h, "ValueError", "src '$prev' used but no previous output exists")
        ELSE Found([h |-> h, v |-> prev])
    ELSE IF src_rel.s \in DOMAIN SrcFiles THEN Found(Alloc(h, SrcFiles[src_rel.s]))
    ELSE NotFound(h, "FileNotFoundError", "open")

\* A destination that starts empty when there is no previous output.
ResolveDstLenient(h, dst_rel, prev) ==
    IF dst_rel = Prev /\ prev # JNull THEN Found(deepcopy(h, prev))
    ELSE IF dst_rel # Prev /\ Truthy(dst_rel) /\ dst_rel.s \in DOMAIN DstFiles
    THEN Found(Alloc(h, DstFiles[dst_rel.s]))
    ELSE Found(New(h, JObj(EmptyMap)))

\* A seed that is a copy of the top level of the previous output only.
SeedFromPrevShallow(h, prev) ==
    IF prev.t = "ref" THEN New(h, h[prev.a]) ELSE [h |-> h, v |-> prev]

\* dst_obj = deepcopy(prev_obj)
SeedFromPrev(h, prev) == deepcopy(h, prev)

\* Resolve DST seed object
ResolveDst(h, dst_rel, prev) ==
    IF dst_rel = Prev THEN
        IF prev = JNull
        THEN NotFound(h, "ValueError", "dst '$prev' used but no previous output exists")
        ELSE Found(SeedFromPrev(h, prev))
    ELSE IF Truthy(dst_rel) /\ dst_rel.s \in DOMAIN DstFiles
    THEN Found(Alloc(h, DstFiles[dst_rel.s]))
    ELSE Found(New(h, JObj(EmptyMap)))

\* The body of the loop once the destination is resolved.
WithDst(lo, eff_ctx, source, d) ==
    IF d.err # "" THEN Raise(d.h, d.err, d.why)
    ELSE [h |-> d.h, err |-> "", why |-> "", mappings |-> lo.mappings,
          prelude |-> lo.prelude, ctx |-> eff_ctx, src |-> source, dst |-> d.v]

WithSrc(step, prev, lo, eff_ctx, sr) ==
    IF sr.err # "" THEN Raise(sr.h, sr.err, sr.why)
    ELSE CHOOSE r \in {WithDst(lo, eff_ctx, sr.v, d) :
                          d \in {ResolveDst(sr.h, StepGet(step, "dst"), prev)}} : TRUE

WithCtx(step, prev, lo, merged) ==
    CHOOSE r \in {WithSrc(step, prev, lo, merged.v, sr) :
                     sr \in {ResolveSrc(merged.h, step.src, prev)}} : TRUE

WithSpec(step, mctx, prev, lo) ==
    IF lo.err # "" THEN Raise(lo.h, lo.err, lo.why)
    ELSE CHOOSE r \in {WithCtx(step, prev, lo, merged) :
                          merged \in {EffCtx(lo.h, mctx, lo.ctx, StepCtx(step))}} : TRUE

\* The body of the for loop of run_meta up to the call of run_etl.
StepStart(h, step, mctx, prev) ==
    IF ~Truthy(StepGet(step, "etl")) \/ ~Truthy(StepGet(step, "src"))
    THEN Raise(h, "ValueError", "missing required keys 'etl' and/or 'src'")
    ELSE CHOOSE r \in {WithSpec(step, mctx, prev, lo) :
                          lo \in {ReadEtl(h, step.etl.s)}} : TRUE

\* run_etl is not running.
NoRun ==
    /\ src_obj = JNull
    /\ dst_obj = JNull
    /\ dst_seed = JNull
    /\ ctx = JNull
    /\ mappings = <<>>
    /\ delimiter = ""
    /\ prelude = <<>>
    /\ NoMapping

\* run_meta is called on a meta file: its ctx and its steps.
MetaInit ==
    /\ steps \in Chains
    /\ default_delimiter \in Defaults
    /\ \E c \in MetaCtxs :
          /\ heap = Alloc(<<>>, c).h
          /\ meta_ctx = Alloc(<<>>, c).v
    /\ idx = 0
    /\ prev_obj = JNull
    /\ final_obj = JNull
    /\ returned = NoReturn
    /\ pc = "run_meta"
    /\ NoRun
    /\ NoCalls

Locals == <<mi, mode, eff_delim, results, segs, ri>>

\* run_meta up to its for loop.
RunMeta ==
    /\ pc = "run_meta"
    /\ IF steps = <<>>
       THEN /\ pc' = "raised"
            /\ err' = "ValueError"
            /\ why' = "'steps' must be a non-empty array"
       ELSE /\ pc' = "for step"
            /\ UNCHANGED <<err, why>>
    /\ UNCHANGED <<heap, Inputs, Locals, chain, calls>>

\* A loop that goes on to the next step when one fails.
StartedSkipping(r) ==
    /\ heap' = r.h
    /\ err' = r.err
    /\ why' = r.why
    /\ IF r.err # ""
       THEN /\ pc' = "for step"
            /\ UNCHANGED <<src_obj, dst_obj, dst_seed, ctx, mappings, delimiter, prelude>>
       ELSE /\ pc' = "run_etl"
            /\ src_obj' = r.src
            /\ dst_obj' = r.dst
            /\ dst_seed' = Val(r.h, r.dst)
            /\ ctx' = r.ctx
            /\ mappings' = r.mappings
            /\ prelude' = r.prelude
            /\ delimiter' = StepDelim(steps[idx + 1], default_delimiter)

Started(r) ==
    /\ heap' = r.h
    /\ err' = r.err
    /\ why' = r.why
    /\ IF r.err # ""
       THEN /\ pc' = "raised"
            /\ UNCHANGED <<src_obj, dst_obj, dst_seed, ctx, mappings, delimiter, prelude>>
       ELSE /\ pc' = "run_etl"
            /\ src_obj' = r.src
            /\ dst_obj' = r.dst
            /\ dst_seed' = Val(r.h, r.dst)
            /\ ctx' = r.ctx
            /\ mappings' = r.mappings
            /\ prelude' = r.prelude
            /\ delimiter' = StepDelim(steps[idx + 1], default_delimiter)

\* The for loop of run_meta takes its next step, up to the call of run_etl.
StepBegin ==
    /\ pc = "for step"
    /\ idx < Len(steps)
    /\ idx' = idx + 1
    /\ Started(StepStart(heap, steps[idx + 1], meta_ctx, prev_obj))
    /\ mi' = 0
    /\ mode' = ""
    /\ eff_delim' = ""
    /\ results' = JNull
    /\ segs' = <<>>
    /\ ri' = 0
    /\ UNCHANGED <<meta_ctx, steps, default_delimiter, prev_obj, final_obj, returned,
                   calls>>

\* A loop that keeps the first output as the previous one.
StepEndKeepsFirst ==
    /\ pc = "done"
    /\ prev_obj' = IF prev_obj = JNull THEN dst_obj ELSE prev_obj
    /\ final_obj' = dst_obj
    /\ pc' = "for step"
    /\ UNCHANGED <<heap, Inputs, Locals, err, why, meta_ctx, steps, default_delimiter,
                   idx, returned, calls>>

\* run_etl has returned dst_obj: prev_obj = out_obj; final_obj = out_obj
StepEnd ==
    /\ pc = "done"
    /\ prev_obj' = dst_obj
    /\ final_obj' = dst_obj
    /\ pc' = "for step"
    /\ UNCHANGED <<heap, Inputs, Locals, err, why, meta_ctx, steps, default_delimiter,
                   idx, returned, calls>>

\* return final_obj
MetaReturn ==
    /\ pc = "for step"
    /\ idx = Len(steps)
    /\ returned' = final_obj
    /\ pc' = "returned"
    /\ UNCHANGED <<heap, Inputs, Locals, err, why, meta_ctx, steps, default_delimiter,
                   idx, prev_obj, final_obj, calls>>

MetaNext ==
    \/ RunMeta
    \/ StepBegin
    \/ RunMapping
    \/ ReplaceWrite
    \/ UpsertWrite
    \/ UpsertReturn
    \/ RunEtlReturn
    \/ StepEnd
    \/ MetaReturn

MetaSpec == MetaInit /\ [][MetaNext]_vars

-----------------------------------------------------------------------------
(* load_etl_file on its own: the contents of an ETL spec file.             *)

MaxItems == 4

\* The items of a list-form spec: mappings, one of them with a 'ctx' key of
\* its own, and the directives {"ctx": ...} and {"with": ...}.
Items ==
    {[src |-> Field("a"), dst |-> PathT],
     [src |-> Field("b"), dst |-> PathU, ctx |-> JObj(One("c", S("m")))],
     [ctx |-> Obj2("c", S("k"), "o", JObj(One("p", JNum(1))))],
     [ctx |-> Obj2("c", S("m"), "o", JObj(One("q", JNum(2))))],
     [ctx |-> JNull],
     [with |-> WithF],
     [with |-> WithG],
     [with |-> JNull]}

RawSpecs ==
    {JArr(e) : e \in UNION {[1..n -> Items] : n \in 0..MaxItems}}
    \cup {JObj([k \in {"mappings", "ctx", "with"} |->
                   CASE k = "mappings" -> <<[src |-> Field("a"), dst |-> PathT]>>
                     [] k = "ctx" -> JObj(One("c", S("f")))
                     [] OTHER -> WithF]),
          JObj(EmptyMap),
          S("x")}

\* load_etl_file is called on a file with the content raw.
LoadInit ==
    /\ raw \in RawSpecs
    /\ loaded = JNull
    /\ dst_path = <<>>
    /\ parsed = JNull
    /\ heap = <<>>
    /\ pc = "load_etl_file"
    /\ NoRun
    /\ NoChain

Loaded(r) ==
    /\ heap' = r.h
    /\ err' = r.err
    /\ why' = r.why
    /\ loaded' = [mappings |-> r.mappings, ctx |-> r.ctx, prelude |-> r.prelude]
    /\ pc' = IF r.err # "" THEN "raised" ELSE "loaded"

\* load_etl_file returns mappings, ctx, prelude, or raises.
LoadEtlFile ==
    /\ pc = "load_etl_file"
    /\ Loaded(load_etl_file(heap, raw))
    /\ UNCHANGED <<Inputs, Locals, chain, raw, dst_path, parsed>>

LoadNext == LoadEtlFile

LoadSpec == LoadInit /\ [][LoadNext]_vars

-----------------------------------------------------------------------------
(* parse_jq_path on its own: destination paths put together of pieces.     *)

MaxPieces == 3

\* Tokens of the three kinds, and parts of tokens.
Pieces ==
    {<<".">>, <<".", "a">>, <<".", "b", "1">>, <<"a">>, <<"0">>, <<" ">>,
     <<"[">>, <<"]">>, <<"[", "0", "]">>, <<"[", " ", "1", "2", " ", "]">>,
     <<"[", "\"", "k", " ", "\\", "\"", "\"", "]">>,
     <<"[", "'", "q", "'", " ", "]">>, <<"[", "\"">>, <<"\\">>}

RECURSIVE Concat(_)
Concat(ps) == IF ps = <<>> THEN <<>> ELSE Head(ps) \o Concat(Tail(ps))

DstPaths == {Concat(ps) : ps \in UNION {[1..n -> Pieces] : n \in 0..MaxPieces}}

\* parse_jq_path is called on dst_path.
PathInit ==
    /\ dst_path \in DstPaths
    /\ parsed = JNull
    /\ raw = JNull
    /\ loaded = JNull
    /\ heap = <<>>
    /\ pc = "parse_jq_path"
    /\ NoRun
    /\ NoChain

\* parse_jq_path returns segs, or raises.
ParsePath ==
    /\ pc = "parse_jq_path"
    /\ parsed' = parse_jq_path(dst_path)
    /\ err' = parse_jq_path(dst_path).err
    /\ why' = IF parse_jq_path(dst_path).err # "" THEN "dst path" ELSE ""
    /\ pc' = IF parse_jq_path(dst_path).err # "" THEN "raised" ELSE "parsed"
    /\ UNCHANGED <<heap, Inputs, mi, mode, eff_delim, results, segs, ri, chain, raw,
                   loaded, dst_path>>

PathNext == ParsePath

PathSpec == PathInit /\ [][PathNext]_vars

-----------------------------------------------------------------------------
(* What the properties below speak of: document trees and the steps that   *)
(* write.                                                                  *)

\* The destination document.
Doc == Val(heap, dst_obj)

\* The source document and the context.
SrcDoc == Val(heap, src_obj)

CtxDoc == Val(heap, ctx)

\* The results of the mapping being applied, as document trees.
ResultTrees == IF results = JNull THEN <<>> ELSE Val(heap, results).e

Absent == [t |-> "absent"]

\* The value of a document tree at a path, Absent when the path leaves it.
RECURSIVE At(_, _)
At(v, p) ==
    IF p = <<>> THEN v
    ELSE IF IsInt(p[1]) THEN
        IF v.t = "arr" /\ p[1].i < Len(v.e) THEN At(v.e[p[1].i + 1], Tail(p)) ELSE Absent
    ELSE
        IF v.t = "obj" /\ p[1].key \in DOMAIN v.m THEN At(v.m[p[1].key], Tail(p)) ELSE Absent

\* A slot that is absent reads as null.
OrNull(v) == IF v = Absent THEN JNull ELSE v

\* The value at the target of the mapping being applied.
Existing == OrNull(At(Doc, segs))

\* A step that is the successful write of a replace mapping.
WroteReplace == pc = "apply_mapping" /\ mode = "replace" /\ pc' = "run_etl"

\* A step that is a successful write of one result of an upsert mapping, and
\* the result it writes.
WroteUpsert == pc = "apply_mapping" /\ mode = "upsert" /\ ri' = ri + 1

Written == ResultTrees[ri + 1]

\* A step that calls set_path_value.
Writes == pc = "apply_mapping" /\ (mode = "replace" \/ ri < Len(ResultTrees))

\* What an upsert step leaves at its target; for the root path, the value
\* set_path_value returns.
Outcome ==
    IF segs = <<>>
    THEN LET w == set_path_value(heap, dst_obj, segs, heap[results.a].e[ri + 1],
                                 "upsert", eff_delim)
         IN  Val(w.h, w.ret)
    ELSE At(Doc', segs)

\* The one value a replace mapping writes for its results.
CollapseTree(rs) ==
    IF Len(rs) = 0 THEN JNull ELSE IF Len(rs) = 1 THEN rs[1] ELSE JArr(rs)

\* Deep merge of object s into object d, as document trees.
RECURSIVE MergeTree(_, _)
MergeTree(d, s) ==
    JObj([k \in (DOMAIN d.m) \cup (DOMAIN s.m) |->
            IF k \notin DOMAIN s.m THEN d.m[k]
            ELSE IF k \in DOMAIN d.m /\ d.m[k].t = "obj" /\ s.m[k].t = "obj"
                 THEN MergeTree(d.m[k], s.m[k])
                 ELSE s.m[k]])

\* Upsert of n into e, as document trees.
UpsertTree(e, n, d) ==
    IF e = JNull THEN n
    ELSE IF e.t = "str" /\ n.t = "str" THEN
        IF e.s = "" THEN n ELSE IF n.s = "" THEN e ELSE JStr(e.s \o d \o n.s)
    ELSE IF e.t = "arr" THEN
        IF n.t = "arr" THEN JArr(e.e \o n.e) ELSE JArr(Append(e.e, n))
    ELSE IF e.t = "obj" /\ n.t = "obj" THEN MergeTree(e, n)
    ELSE n

-----------------------------------------------------------------------------
\* C1: a mapping to the root path '.' writes the whole destination document:
\* after a replace write the document is the collapsed results, and after each
\* upsert write it is the upsert of the result onto the document before.
C1_RootPathWritesDocument ==
    [][segs = <<>> =>
        /\ WroteReplace => Doc' = CollapseTree(ResultTrees)
        /\ WroteUpsert => Doc' = UpsertTree(Doc, Written, eff_delim)]_vars

\* C2: no list or dict inside the destination is shared with the evaluated
\* results, the source document or the context.
C2_NoSharing ==
    Reach(heap, dst_obj)
        \cap (Reach(heap, results) \cup Reach(heap, src_obj) \cup Reach(heap, ctx)) = {}

\* The results of mapping mp on the source document and the context.
ResultsOf(mp) == Jq(mp.src, SrcDoc, CtxDoc)

\* mp is an upsert mapping to the path P whose results are non-empty strings.
UpsertsStringsTo(mp, P) ==
    /\ {"src", "dst"} \subseteq DOMAIN mp
    /\ ModeOf(mp) = "upsert"
    /\ parse_jq_path(mp.dst).err = ""
    /\ parse_jq_path(mp.dst).segs = P
    /\ ResultsOf(mp).err = ""
    /\ \A i \in DOMAIN ResultsOf(mp).out :
            ResultsOf(mp).out[i].t = "str" /\ ResultsOf(mp).out[i].s # ""

\* acc with each of the strings out joined behind it by d, in order.
RECURSIVE JoinResults(_, _, _)
JoinResults(acc, out, d) ==
    IF out = <<>> THEN acc ELSE JoinResults(acc \o d \o Head(out).s, Tail(out), d)

\* acc with the results of the mappings from the i-th on joined behind it, in
\* the order of the mappings, each mapping with its own delimiter.
RECURSIVE JoinMappings(_, _)
JoinMappings(acc, i) ==
    IF i > Len(mappings) THEN acc
    ELSE JoinMappings(JoinResults(acc, ResultsOf(mappings[i]).out,
                                  EffDelim(mappings[i], delimiter)), i + 1)

\* The run is of upsert mappings that all write non-empty strings to the path
\* P, where the destination held a non-empty string.
StringsOnto(P) ==
    /\ mappings # <<>>
    /\ \A i \in DOMAIN mappings : UpsertsStringsTo(mappings[i], P)
    /\ At(dst_seed, P).t = "str"
    /\ At(dst_seed, P).s # ""

\* The paths the mappings of the model name.
TargetPaths == {parse_jq_path(p).segs : p \in Paths}

\* C3: writes are applied in the order of the mappings and, within a mapping,
\* of its results, each onto the value the one before left: strings upserted
\* onto an existing non-empty string e are e followed by each of them in that
\* order, each behind its delimiter.
C3_StringsInOrder ==
    \A P \in TargetPaths :
        (pc = "done" /\ StringsOnto(P)) =>
            At(Doc, P) = JStr(JoinMappings(At(dst_seed, P).s, 1))

\* The same for the paths below the root.
FieldStringsInOrder ==
    \A P \in TargetPaths \ {<<>>} :
        (pc = "done" /\ StringsOnto(P)) =>
            At(Doc, P) = JStr(JoinMappings(At(dst_seed, P).s, 1))

FieldStringsJoined ==
    /\ pc = "done"
    /\ StringsOnto(<<SKey("t")>>)
    /\ At(Doc, <<SKey("t")>>) = JStr("s\nx\ny")

\* C4: a replace mapping writes exactly one value, null for no result, the
\* result for one and the array of the results in order for more, and what
\* the target held before is gone, whatever it was.
C4_ReplaceCollapses ==
    [][WroteReplace => At(Doc', segs) = CollapseTree(ResultTrees)]_vars

\* The same for the paths below the root.
FieldReplaceCollapses ==
    [][(WroteReplace /\ segs # <<>>) => At(Doc', segs) = CollapseTree(ResultTrees)]_vars

\* C5: the upsert of a string onto a string is the new string when the
\* existing one is empty, the existing one when the new one is empty, and
\* otherwise existing + delimiter + new; an empty operand adds no delimiter.
C5_StringShortCircuits ==
    [][(WroteUpsert /\ Existing.t = "str" /\ Written.t = "str") =>
        /\ Existing.s = "" => Outcome = Written
        /\ Existing.s # "" /\ Written.s = "" => Outcome = Existing
        /\ Existing.s # "" /\ Written.s # "" =>
                Outcome = JStr(Existing.s \o eff_delim \o Written.s)
        /\ (Existing.s = "" \/ Written.s = "") =>
                Len(Outcome.s) = Len(Existing.s) + Len(Written.s)]_vars

\* An upsert of "x" onto the empty string has left "x".
C5_EmptyExistingUpserted ==
    /\ pc = "apply_mapping" /\ mode = "upsert" /\ mi = 0 /\ ri = 1
    /\ segs = <<SKey("t")>>
    /\ At(dst_seed, segs) = JStr("")
    /\ ResultTrees[1] = JStr("x")
    /\ At(Doc, segs) = JStr("x")

\* C6: the upsert onto an existing array of a new array is the existing
\* elements followed by the new ones in order; of any other new value it is
\* the existing elements followed by that value as one element.
C6_ArrayConcatOrAppend ==
    [][(WroteUpsert /\ Existing.t = "arr") =>
        /\ Written.t = "arr" => Outcome = JArr(Existing.e \o Written.e)
        /\ Written.t # "arr" => Outcome = JArr(Existing.e \o <<Written>>)]_vars

\* An upsert of ["p", "q"] onto [0, null] has left [0, null, "p", "q"].
C6_ArrayExtended ==
    /\ pc = "apply_mapping" /\ mode = "upsert" /\ mi = 0 /\ ri = 1
    /\ segs = <<SKey("t")>>
    /\ At(dst_seed, segs) = JArr(<<JNum(0), JNull>>)
    /\ ResultTrees[1] = JArr(<<JStr("p"), JStr("q")>>)
    /\ At(Doc, segs) = JArr(<<JNum(0), JNull, JStr("p"), JStr("q")>>)

\* The mapping being applied is the one applied just before it.
Repeats == mi >= 1 /\ mappings[mi + 1] = mappings[mi]

\* C7: the upsert of an object onto an object is their deep merge: a key of
\* dst absent from src keeps its value, a key of both whose values are objects
\* is merged recursively, every other key of src takes src's value; and
\* merging the same src again leaves dst as it is.
C7_DeepMerge ==
    [][(WroteUpsert /\ Existing.t = "obj" /\ Written.t = "obj") =>
        /\ Outcome = MergeTree(Existing, Written)
        /\ (Repeats /\ Len(ResultTrees) = 1) => Doc' = Doc]_vars

\* The object o of the source has been merged twice into the object at .t.
C7_MergedTwice ==
    /\ pc = "run_etl" /\ mi = 2 /\ mode = "upsert"
    /\ mappings[1] = mappings[2]
    /\ segs = <<SKey("t")>>
    /\ Len(ResultTrees) = 1
    /\ At(dst_seed, segs).t = "obj"
    /\ ResultTrees[1].t = "obj"
    /\ At(Doc, segs) # At(dst_seed, segs)
    /\ At(Doc, segs).m["w"] = JObj([k \in {"j", "k"} |-> IF k = "j" THEN JNum(5) ELSE JNum(2)])

\* C8: applying a replace mapping a second time leaves the destination as the
\* first application left it.
C8_ReplaceIdempotent ==
    [][(WroteReplace /\ Repeats) => Doc' = Doc]_vars

\* A replace mapping that changed the destination has been applied twice.
C8_ReplacedTwice ==
    /\ pc = "run_etl" /\ mi = 2 /\ mode = "replace"
    /\ mappings[1] = mappings[2]
    /\ segs # <<>>
    /\ Doc # dst_seed
    /\ At(Doc, segs) = CollapseTree(ResultTrees)

\* The first n segments of a path, and whether one path begins another.
Prefix(p, n) == SubSeq(p, 1, n)

IsPrefix(p, q) == Len(p) <= Len(q) /\ SubSeq(q, 1, Len(p)) = p

\* q leaves the path p: neither lies on the other.
OffPath(q, p) == ~IsPrefix(q, p) /\ ~IsPrefix(p, q)

\* The paths of a document tree.
RECURSIVE PathsOf(_)
PathsOf(v) ==
    {<<>>} \cup
    IF v.t = "arr"
    THEN UNION {{<<SIdx(i - 1)>> \o q : q \in PathsOf(v.e[i])} : i \in DOMAIN v.e}
    ELSE IF v.t = "obj"
    THEN UNION {{<<SKey(k)>> \o q : q \in PathsOf(v.m[k])} : k \in DOMAIN v.m}
    ELSE {}

\* q is a slot of an array on the path p, before the index p takes there.
Placeholder(q, p) ==
    /\ q # <<>> /\ Len(q) <= Len(p)
    /\ Prefix(q, Len(q) - 1) = Prefix(p, Len(q) - 1)
    /\ IsInt(q[Len(q)]) /\ IsInt(p[Len(q)])
    /\ q[Len(q)].i < p[Len(q)].i

LenOf(v) == IF v.t = "arr" THEN Len(v.e) ELSE 0

KeysOf(v) == IF v.t = "obj" THEN DOMAIN v.m ELSE {}

Max(a, b) == IF a >= b THEN a ELSE b

\* The container at the first n segments of the path after a write, against
\* what was there before: its kind is the kind the next segment needs, an
\* existing container keeps its kind, an array is exactly as long as the
\* index needs and an object gains exactly the key.
ContainerMade(old, new, nxt) ==
    /\ new.t = IF IsInt(nxt) THEN "arr" ELSE "obj"
    /\ old \notin {Absent, JNull} => old.t = new.t
    /\ IsInt(nxt) => Len(new.e) = Max(LenOf(old), nxt.i + 1)
    /\ ~IsInt(nxt) => DOMAIN new.m = KeysOf(old) \cup {nxt.key}

\* C9: a write below the root creates exactly the missing containers: each
\* container on the path is an array if the segment after it is an integer
\* and an object otherwise, an array grows with nulls only up to the index,
\* and every value off the path is as it was.
C9_CreatesMissingContainers ==
    [][((WroteReplace \/ WroteUpsert) /\ segs # <<>>) =>
        /\ \A n \in 0..(Len(segs) - 1) :
                ContainerMade(At(Doc, Prefix(segs, n)), At(Doc', Prefix(segs, n)),
                              segs[n + 1])
        /\ \A q \in PathsOf(Doc) : OffPath(q, segs) => At(Doc', q) = At(Doc, q)
        /\ \A q \in PathsOf(Doc') : OffPath(q, segs) =>
                \/ At(Doc, q) = At(Doc', q)
                \/ At(Doc, q) = Absent /\ At(Doc', q) = JNull /\ Placeholder(q, segs)]_vars

\* "x" has been written at .a.b[2].c into {}.
C9_PathCreated ==
    /\ dst_seed = JObj(EmptyMap)
    /\ mi = 0 /\ ri = 1
    /\ segs = <<SKey("a"), SKey("b"), SIdx(2), SKey("c")>>
    /\ Doc = JObj(One("a", JObj(One("b", JArr(<<JNull, JNull, JObj(One("c", JStr("x")))>>)))))

\* The value v, found on the path, cannot take the segment seg.
Incompatible(v, seg) ==
    /\ v \notin {Absent, JNull}
    /\ IF IsInt(seg) THEN v.t # "arr" ELSE v.t # "obj"

NextMapping == mappings[mi + 1]

Applies ==
    /\ pc = "run_etl"
    /\ mi < Len(mappings)
    /\ {"src", "dst"} \subseteq DOMAIN NextMapping

\* C15: apply_mapping of a mapping whose mode is neither upsert nor replace
\* raises the error of the unsupported mode, also when its expression or
\* its path is in error, with nothing evaluated (no result is built), no
\* path parsed and the destination document unchanged.
C15_UnsupportedModeFirst ==
    [][Applies /\ ModeOf(NextMapping) \notin {"upsert", "replace"}
       => /\ pc' = "raised"
          /\ err' = "ValueError"
          /\ why' = "Unsupported mode"
          /\ heap' = heap
          /\ results' = JNull
          /\ segs' = <<>>
          /\ Doc' = Doc]_vars

\* The unsupported mode is raised for a mapping whose expression fails and
\* whose path does not parse.
C15_RaisedBeforeOtherErrors ==
    /\ pc = "raised"
    /\ why = "Unsupported mode"
    /\ NextMapping.mode = "merge"
    /\ evaluate_src(heap, NextMapping.src, src_obj, ctx).err # ""
    /\ parse_jq_path(NextMapping.dst).err # ""
    /\ Doc = dst_seed

\* C16: an upsert mapping whose expression has no result leaves the
\* destination as it is: the evaluation does not touch the document, and
\* the loop over the results returns at once with the heap as it was, so
\* that no container of the path is created and no array grown.
C16_EmptyUpsertIsNoOp ==
    [][/\ Applies /\ ModeOf(NextMapping) = "upsert" /\ pc' = "apply_mapping"
          /\ ResultTrees' = <<>>
          => Doc' = Doc
       /\ pc = "apply_mapping" /\ mode = "upsert" /\ ResultTrees = <<>>
          => /\ pc' = "run_etl"
             /\ mi' = mi + 1
             /\ heap' = heap
             /\ Doc' = Doc]_vars

\* An upsert without results to a path of missing containers has returned.
C16_NothingCreated ==
    /\ pc = "run_etl"
    /\ mi = 1
    /\ mode = "upsert"
    /\ ResultTrees = <<>>
    /\ segs = <<SKey("a"), SKey("b"), SIdx(2), SKey("c")>>
    /\ At(dst_seed, <<SKey("a")>>) = Absent
    /\ Doc = dst_seed

-----------------------------------------------------------------------------
(* Chains: what the properties of run_meta speak of.                       *)

\* The step the for loop of run_meta takes next, and the one it is in.
NextStep == steps[idx + 1]

ThisStep == steps[idx]

\* The for loop takes a step.
TakesStep == pc = "for step" /\ idx < Len(steps) /\ idx' = idx + 1

UsesPrev(step) == StepGet(step, "src") = Prev \/ StepGet(step, "dst") = Prev

PrevMessages ==
    {"src '$prev' used but no previous output exists",
     "dst '$prev' used but no previous output exists"}

\* A check of the loop body that comes before the one of "$prev" fails:
\* a missing key, an ETL spec that does not load and, for the destination,
\* a source file that cannot be opened.
FailsBefore(step) ==
    \/ ~Truthy(StepGet(step, "etl"))
    \/ ~Truthy(StepGet(step, "src"))
    \/ ReadEtl(heap, step.etl.s).err # ""
    \/ step.src # Prev /\ step.src.s \notin DOMAIN SrcFiles

\* C11 as stated: a first step that uses "$prev" as its source or as its
\* destination fails with the error of "$prev" without a previous output,
\* and none of its mappings is executed.
C11_PrevInFirstStepRaises ==
    [][TakesStep /\ idx = 0 /\ UsesPrev(NextStep)
       => pc' = "raised" /\ why' \in PrevMessages /\ mi' = 0]_vars

\* C11: a first step that uses "$prev" as its source or as its destination
\* fails and none of its mappings is executed; the error is the one of
\* "$prev" without a previous output exactly when no earlier check of the
\* step fails.
C11_PrevInFirstStepFails ==
    [][TakesStep /\ idx = 0 /\ UsesPrev(NextStep)
       => /\ pc' = "raised"
          /\ mi' = 0
          /\ why' \in PrevMessages <=> ~FailsBefore(NextStep)]_vars

\* The first step has "$prev" for its destination, after a source that was read.
C11_FirstStepDstPrev ==
    /\ pc = "raised"
    /\ idx = 1
    /\ StepGet(ThisStep, "dst") = Prev
    /\ StepGet(ThisStep, "src") # Prev
    /\ why = "dst '$prev' used but no previous output exists"

\* The context of a list-form ETL spec: its {"ctx": ...} items merged in
\* document order.
RECURSIVE ItemsCtx(_)
ItemsCtx(items) ==
    IF items = <<>> THEN JObj(EmptyMap)
    ELSE IF DOMAIN items[Len(items)] = {"ctx"} /\ Truthy(items[Len(items)].ctx)
         THEN MergeTree(ItemsCtx(SubSeq(items, 1, Len(items) - 1)),
                        items[Len(items)].ctx)
         ELSE ItemsCtx(SubSeq(items, 1, Len(items) - 1))

\* The context of an ETL spec file.
FileCtx(file) ==
    IF file.t = "arr" THEN ItemsCtx(file.e)
    ELSE IF "ctx" \in DOMAIN file.m /\ Truthy(file.m.ctx) THEN file.m.ctx
    ELSE JObj(EmptyMap)

\* The chain-level context.
MetaCtxDoc == Val(heap, meta_ctx)

\* C12: the context a step passes to its mappings is the deep merge of the
\* chain-level context, the context of the step's ETL spec and the step's
\* own context, in this order, whatever the steps before it were; it stays
\* the same while the step runs, and no step changes the chain-level context.
C12_EffectiveContext ==
    [][/\ MetaCtxDoc' = MetaCtxDoc
       /\ TakesStep /\ pc' = "run_etl"
          => CtxDoc' = MergeTree(MergeTree(MetaCtxDoc, FileCtx(EtlFiles[NextStep.etl.s])),
                                 StepCtx(NextStep))
       /\ ~TakesStep => CtxDoc' = CtxDoc]_vars

\* A second step starts with the chain-level context and its own ETL spec's,
\* after a first step with other contexts of the ETL spec and of the step.
C12_SecondStepContext ==
    /\ pc = "run_etl"
    /\ idx = 2
    /\ mi = 0
    /\ StepCtx(steps[1]) = Obj2("c", S("k"), "o", JObj(One("r", JNum(3))))
    /\ steps[1].etl = S("e1")
    /\ steps[2].etl = S("e2")
    /\ CtxDoc = Obj2("c", S("f"), "o", Obj2("p", JNum(1), "q", JNum(1)))

IsDirective(item) == DOMAIN item \in {{"ctx"}, {"with"}}

IsMapping(item) == ~IsDirective(item)

\* The mappings of an ETL spec file, in the order of the file.
FileMappings(file) ==
    IF file.t = "arr" THEN SelectSeq(file.e, IsMapping)
    ELSE IF "mappings" \in DOMAIN file.m THEN file.m.mappings
    ELSE <<>>

\* C13: the steps of a chain run one after another in the order of the
\* list, each once; a step starts when the one before it has ended; the
\* destination a step has written is the previous output the next step
\* sees, and run_meta returns the destination of the last step.
C13_StepsInOrder ==
    [][/\ idx' # idx => TakesStep
       /\ TakesStep => idx = 0 \/ prev_obj = dst_obj
       /\ TakesStep /\ pc' = "run_etl"
          => /\ mappings' = FileMappings(EtlFiles[NextStep.etl.s])
             /\ NextStep.src = Prev => src_obj' = prev_obj /\ SrcDoc' = Val(heap, prev_obj)
             /\ StepGet(NextStep, "dst") = Prev => Doc' = Val(heap, prev_obj)
       /\ pc = "done"
          => /\ pc' = "for step"
             /\ prev_obj' = dst_obj
             /\ final_obj' = dst_obj
             /\ Val(heap', prev_obj') = Doc
       /\ pc' = "returned"
          => /\ idx = Len(steps)
             /\ returned' = dst_obj
             /\ Val(heap', returned') = Doc]_vars

\* A chain of two steps has returned, the second having read and written
\* the output of the first.
C13_ChainReturned ==
    /\ pc = "returned"
    /\ idx = 2
    /\ steps[2].src = Prev
    /\ StepGet(steps[2], "dst") = Prev
    /\ returned = dst_obj
    /\ Doc # JObj(EmptyMap)

\* C14: an error raised in a step ends the run: the exception leaves
\* run_meta, after which nothing runs (no later step, no second attempt),
\* and run_meta returns a document only when no step has raised, after the
\* last step.
C14_ErrorEndsRun ==
    [][/\ pc # "raised"
       /\ err' # "" => pc' = "raised" /\ returned' = NoReturn
       /\ returned' # NoReturn => err' = "" /\ idx' = Len(steps)]_vars

\* The second step of a chain has raised in its second mapping, after its
\* first mapping wrote the destination.
C14_SecondStepRaised ==
    /\ pc = "raised"
    /\ idx = 2
    /\ Len(steps) = 2
    /\ mi = 1
    /\ why = "navigate"
    /\ At(Doc, <<SKey("u")>>) = S("x")
    /\ prev_obj # JNull
    /\ returned = NoReturn

\* The delimiter by precedence: the mapping's, the step's option, the default.
ChosenDelimiter(mapping, step, default) ==
    IF "delimiter" \in DOMAIN mapping /\ mapping.delimiter # JNull
    THEN _decode_delim(mapping.delimiter.cs)
    ELSE IF "options" \in DOMAIN step /\ "delimiter" \in DOMAIN step.options
         THEN step.options.delimiter.s
         ELSE default

\* C17: the delimiter of a mapping is its own 'delimiter' when it has one
\* that is not null, else the step's options.delimiter when the step has
\* one, else the default of the chain; it is chosen anew for every mapping,
\* and it is what joins two non-empty strings in the mapping's upserts.
C17_DelimiterPrecedence ==
    [][/\ Applies /\ pc' = "apply_mapping"
          => eff_delim' = ChosenDelimiter(NextMapping, ThisStep, default_delimiter)
       /\ (/\ WroteUpsert
           /\ Existing.t = "str" /\ Written.t = "str"
           /\ Existing.s # "" /\ Written.s # "")
          => Outcome = JStr(Existing.s
                            \o ChosenDelimiter(NextMapping, ThisStep, default_delimiter)
                            \o Written.s)]_vars

\* A step with the option "|" joined "s", "k", "x"; the next step, without
\* the option, joined with "+" in its first mapping, which has this
\* delimiter, and with the default "," in its third.
C17_AllThreeUsed ==
    /\ pc = "run_etl"
    /\ idx = 2
    /\ mi = 3
    /\ default_delimiter = ","
    /\ Val(heap, src_obj) = JObj(One("t", S("s|k|x")))
    /\ At(Doc, <<SKey("t")>>) = S("s|k|x+s|k|x")
    /\ At(Doc, <<SKey("u")>>) = S("s|k|x,f")

\* The previous output, as a document tree.
PrevDoc == Val(heap, prev_obj)

\* A step with the destination "$prev" is running its mappings.
RunsOnPrev ==
    /\ idx >= 1
    /\ pc \in {"run_etl", "apply_mapping"}
    /\ StepGet(ThisStep, "dst") = Prev

\* C20: a step with the destination "$prev" starts on a copy of the
\* previous output that shares no list or dict with it; while its mappings
\* write the destination, the previous output keeps its value, and so does
\* the source document when the source is "$prev", being the previous
\* output itself.
C20_PrevCopied ==
    [][/\ TakesStep /\ pc' = "run_etl" /\ StepGet(NextStep, "dst") = Prev
          => /\ Doc' = PrevDoc
             /\ Val(heap', prev_obj) = PrevDoc
             /\ Reach(heap', dst_obj') \cap Reach(heap', prev_obj) = {}
       /\ RunsOnPrev
          => /\ prev_obj' = prev_obj
             /\ Val(heap', prev_obj) = PrevDoc
             /\ Reach(heap', dst_obj') \cap Reach(heap', prev_obj) = {}
             /\ ThisStep.src = Prev => src_obj = prev_obj /\ SrcDoc' = SrcDoc]_vars

\* In a step from "$prev" to "$prev" the first mapping has joined .t to
\* itself in the destination and the second has read the .t of the source,
\* which is as the step before left it.
C20_SourceKept ==
    /\ pc = "run_etl"
    /\ idx = 2
    /\ mi = 2
    /\ ThisStep.src = Prev
    /\ StepGet(ThisStep, "dst") = Prev
    /\ SrcDoc = PrevDoc
    /\ At(SrcDoc, <<SKey("t")>>) = S("x")
    /\ At(Doc, <<SKey("t")>>) = S("x+x")
    /\ At(Doc, <<SKey("u")>>) = S("x")

-----------------------------------------------------------------------------
(* The loader of ETL specs.                                                *)

\* The text without the white space at its two ends.
TrimOf(cs) ==
    CHOOSE t \in {SubSeq(cs, i, j) : i \in 1..(Len(cs) + 1), j \in 0..Len(cs)} :
        /\ \E pre, post \in {SubSeq(cs, i, j) : i \in 1..(Len(cs) + 1), j \in 0..Len(cs)} :
              /\ cs = pre \o t \o post
              /\ \A k \in 1..Len(pre) : pre[k] \in Spaces
              /\ \A k \in 1..Len(post) : post[k] \in Spaces
        /\ t # <<>> => t[1] \notin Spaces /\ t[Len(t)] \notin Spaces

IsWith(item) == DOMAIN item = {"with"}

\* The prelude of a list-form spec: the trimmed text of its last
\* {"with": ...} item, empty without one.
RECURSIVE ItemsPrelude(_)
ItemsPrelude(items) ==
    IF items = <<>> THEN <<>>
    ELSE IF IsWith(items[Len(items)])
         THEN IF items[Len(items)].with = JNull THEN <<>>
              ELSE TrimOf(items[Len(items)].with.cs)
         ELSE ItemsPrelude(SubSeq(items, 1, Len(items) - 1))

\* C18: of a list-form spec, the loader merges the {"ctx": ...} items into
\* the context in the order of the list, takes the trimmed text of the last
\* {"with": ...} item as the prelude, and returns all the other items, and
\* only them, as the mappings in the order of the list.
C18_ListFormClassified ==
    pc = "loaded" /\ raw.t = "arr"
    => /\ loaded.mappings = SelectSeq(raw.e, IsMapping)
       /\ \A i \in 1..Len(loaded.mappings) : ~IsDirective(loaded.mappings[i])
       /\ Val(heap, loaded.ctx) = ItemsCtx(raw.e)
       /\ loaded.prelude = ItemsPrelude(raw.e)

\* A list with two {"with": ...} items, two {"ctx": ...} items that
\* overlap, and no mapping has been loaded.
C18_LastWithWins ==
    /\ pc = "loaded"
    /\ raw = JArr(<<[with |-> WithG],
                    [ctx |-> Obj2("c", S("k"), "o", JObj(One("p", JNum(1))))],
                    [with |-> WithF],
                    [ctx |-> Obj2("c", S("m"), "o", JObj(One("q", JNum(2))))]>>)
    /\ loaded.mappings = <<>>
    /\ loaded.prelude = <<"f", ";">>
    /\ Val(heap, loaded.ctx) = Obj2("c", S("m"), "o", Obj2("p", JNum(1), "q", JNum(2)))

-----------------------------------------------------------------------------
(* The parser of destination paths.                                        *)

\* The three kinds of token, as texts: .identifier
IsNameToken(t) ==
    /\ Len(t) >= 2
    /\ t[1] = "."
    /\ t[2] \in Letters
    /\ \A k \in 3..Len(t) : t[k] \in Letters \cup Digits

\* [digits], with white space allowed inside the brackets; i..j are the digits.
IndexAt(t, i, j) ==
    /\ t[1] = "[" /\ t[Len(t)] = "]"
    /\ i <= j
    /\ \A k \in 2..(i - 1) : t[k] \in Spaces
    /\ \A k \in i..j : t[k] \in Digits
    /\ \A k \in (j + 1)..(Len(t) - 1) : t[k] \in Spaces

\* What stands between the quotes q: characters other than q and the
\* backslash, and a backslash with the character after it.
RECURSIVE IsQuotedContent(_, _)
IsQuotedContent(c, q) ==
    \/ c = <<>>
    \/ c[1] \notin {q, "\\"} /\ IsQuotedContent(Tail(c), q)
    \/ c[1] = "\\" /\ Len(c) >= 2 /\ c[2] # "\n"
       /\ IsQuotedContent(SubSeq(c, 3, Len(c)), q)

\* ["key"] or ['key']; i and j are the quotes.
QuotedAt(t, i, j, q) ==
    /\ t[1] = "[" /\ t[Len(t)] = "]"
    /\ i < j
    /\ t[i] = q /\ t[j] = q
    /\ \A k \in 2..(i - 1) : t[k] \in Spaces
    /\ \A k \in (j + 1)..(Len(t) - 1) : t[k] \in Spaces
    /\ IsQuotedContent(SubSeq(t, i + 1, j - 1), q)

Inner(t) == 2..(Len(t) - 1)

\* The segments a text stands for as one token: none when it is no token.
TokenSegs(t) ==
    {SKey(Join(Tail(t))) : x \in {y \in {1} : IsNameToken(t)}}
    \cup {SIdx(ToInt(SubSeq(t, p[1], p[2]), 0)) :
            p \in {r \in Inner(t) \X Inner(t) : IndexAt(t, r[1], r[2])}}
    \cup {SKey(_unescape(SubSeq(t, p[1] + 1, p[2] - 1))) :
            p \in {r \in Inner(t) \X Inner(t) :
                     QuotedAt(t, r[1], r[2], "\"") \/ QuotedAt(t, r[1], r[2], "'")}}

\* The ways to read a whole path as tokens one after another, each way as
\* the sequence of the segments of its tokens.
RECURSIVE Readings(_)
Readings(path) ==
    IF path = <<>> THEN {<<>>}
    ELSE UNION {{<<sg>> \o rest : sg \in TokenSegs(SubSeq(path, 1, n)),
                                  rest \in Readings(SubSeq(path, n + 1, Len(path)))} :
                n \in {m \in 1..Len(path) : TokenSegs(SubSeq(path, 1, m)) # {}}}

\* C19: parse_jq_path returns segments only for a path that begins with
\* '.' and is, as a whole, tokens one after another, and then it returns
\* the segments of these tokens, one for each; of the other paths it
\* returns nothing and raises, except for the path '.', for which it
\* returns no segment.
C19_WholePathOrError ==
    pc \in {"parsed", "raised"}
    => /\ parsed.err \in {"", "ValueError"}
       /\ dst_path = <<>> \/ dst_path[1] # "." => parsed.err # ""
       /\ dst_path = <<".">> => parsed.err = "" /\ parsed.segs = <<>>
       /\ parsed.err = "" /\ dst_path # <<".">> => Readings(dst_path) = {parsed.segs}
       /\ parsed.err # "" => parsed.segs = <<>>
       /\ (/\ dst_path # <<>>
           /\ dst_path[1] = "."
           /\ Readings(dst_path) # {}) => parsed.err = ""

\* parse_jq_path has raised for a path that begins with two tokens.
C19_PrefixNotReturned ==
    /\ pc = "raised"
    /\ dst_path = <<".", "a", "[", "0", "]", "a">>
    /\ Readings(SubSeq(dst_path, 1, 5)) = {<<SKey("a"), SIdx(0)>>}
    /\ parsed.segs = <<>>

-----------------------------------------------------------------------------
(* Failed writes.                                                           *)

\* A step that calls set_path_value and ends in its TypeError.
FailsWrite == Writes /\ pc' = "raised" /\ err' = "TypeError"

\* C21: a write that fails with a type mismatch leaves the destination
\* document as it was before the call: the value of the document is the
\* same and no list or dict of it has been touched, so no container has been
\* created, no null slot filled and no array grown on the way to the
\* mismatch.  The failing write of an upsert mapping is the write of its
\* first result, so the mapping that fails has written nothing.
C21_FailedWriteWritesNothing ==
    [][FailsWrite =>
        /\ Doc' = Doc
        /\ \A a \in Reach(heap, dst_obj) : heap'[a] = heap[a]
        /\ Reach(heap', dst_obj) = Reach(heap, dst_obj)
        /\ mode = "upsert" => ri = 0]_vars

\* The first of the two results of an upsert mapping has been refused at
\* .t[1].k, where .t holds an object: the segments [1] and .k were never
\* made and the document is the one the run was given.
C21_FirstResultRefused ==
    /\ pc = "raised" /\ err = "TypeError"
    /\ mode = "upsert" /\ ri = 0
    /\ Len(ResultTrees) = 2
    /\ segs = <<SKey("t"), SIdx(1), SKey("k")>>
    /\ At(dst_seed, <<SKey("t")>>) # Absent
    /\ At(dst_seed, <<SKey("t")>>).t = "obj"
    /\ Doc = dst_seed

-----------------------------------------------------------------------------
(* "$prev" after a completed step.                                          *)

\* The step taken resolves "$prev" to the output of the step before it: as
\* the source it is that output itself, as the destination it has its value.
ResolvesPrev ==
    /\ ~(pc' = "raised" /\ why' \in PrevMessages)
    /\ pc' = "run_etl" =>
          /\ StepGet(NextStep, "src") = Prev => src_obj' = prev_obj
          /\ StepGet(NextStep, "dst") = Prev => Doc' = PrevDoc

\* C22: once a step of the chain has completed, a later step that uses
\* "$prev" as its source or destination resolves it to the output of the
\* step before it and never fails with the error of "$prev" without a
\* previous output, whatever value that output is, null included.
C22_PrevResolvesAfterStep ==
    [][TakesStep /\ idx >= 1 /\ UsesPrev(NextStep) => ResolvesPrev]_vars

\* The same for a previous output that is not null.
NonNullPrevResolves ==
    [][TakesStep /\ idx >= 1 /\ UsesPrev(NextStep) /\ prev_obj # JNull
       => ResolvesPrev]_vars

\* With a null previous output the step fails with the error of "$prev"
\* exactly when no earlier check of the step fails.
NullPrevRefused ==
    [][TakesStep /\ idx >= 1 /\ UsesPrev(NextStep) /\ prev_obj = JNull
       => /\ pc' = "raised"
          /\ why' \in PrevMessages <=> ~FailsBefore(NextStep)]_vars

\* The second step has been refused its "$prev" after a first step that
\* completed with a null document.
SecondStepRefused ==
    /\ pc = "raised"
    /\ idx = 2
    /\ why \in PrevMessages
    /\ final_obj = JNull
    /\ StepGet(steps[1], "dst") = S("null.json")

====
